---- MODULE Spec2Model ----
(***************************************************************************)
(* Model of src/main.py: the mode state machine, the asyncio tasks that    *)
(* feed it (two input readers, the event processor, the network monitor,  *)
(* the inactivity watcher, main) and the OLED display they all draw on.   *)
(*                                                                         *)
(* The event loop is single threaded: a task runs from one await to the   *)
(* next without interruption, and the loop only waits for a timer when no *)
(* task is ready, so Tick is enabled only when nothing is ready to run.   *)
(*                                                                         *)
(* Time is counted in periods of the watcher: its asyncio.sleep(1) starts *)
(* when the watcher reaches it and ends a little late, so a period is a   *)
(* little more than a second, and more again when the wake-up draws.      *)
(* Clocks are kept as ages (now - t) and remaining sleeps, which is all   *)
(* the code compares.  An age is a number of periods and whether the      *)
(* seconds that have passed are more than that number.  The network       *)
(* monitor's timer runs on its own: its five seconds, with its own        *)
(* lateness and the time its pass takes, are over after four, five or six *)
(* periods of the watcher.                                                 *)
(*                                                                         *)
(* A call of draw_text / draw_icon is three steps on the display: fill    *)
(* the clear rectangles in the PIL image, draw the text into the image,   *)
(* push the image to the panel (oled.image + oled.show).  A frame is      *)
(* modelled by the texts that have ink on it at each of the five places   *)
(* the program draws at, oldest first, in pixel geometry: a clear          *)
(* rectangle takes a text off the frame when it covers the text's box.    *)
(* The font files are not part of the source; font is what getbbox gives. *)
(***************************************************************************)
EXTENDS Integers, Sequences, FiniteSets, TLC

VARIABLES
    mode_manager,      \* ModeStateMachine fields: selected_mode_index, active_mode_index, last_knob_age
    event_queue,       \* asyncio.Queue of event names
    pc,                \* where each task is: "wait" (at an await), "cancel" (CancelledError pending), "done"; main has its own places
    running,           \* the tasks that are executing between two awaits
    todo,              \* per task: the draw calls the running handler still has to make
    wphase,            \* per task: how far its current draw call is ("none", "cleared", "drawn")
    image,             \* OLEDDisplay.image: the PIL buffer, the texts with ink per region
    oled,              \* the frame on the panel, the texts with ink per region
    font,              \* OLEDDisplay.font: which boxes getbbox gives
    watcher_sleep,     \* what is left of monitor_inactivity's asyncio.sleep(1)
    net_sleep,         \* periods of the watcher left of update_network_status's asyncio.sleep(5)
    net,               \* update_network_status locals: last_icon, last_ip, last_ssid, show_ip
    handling,          \* the event handle_event is working on, "none" outside
    last_event,        \* history: "confirm" when the last event the state machine finished handling is a button_pressed, else "other"
    since_interaction, \* history: time since the last rotate or confirm event was processed (since start if none)
    run,               \* history: the current run of consecutive knob_forward events: start index and length
    arrived,           \* history: the input events delivered since the last second went by
    order,             \* history: the samples each device produced, the events put on the queue and the events taken from it, in order
    seen,              \* history: what the last pass of update_network_status read: the interface table and iwgetid's output
    startup            \* the module-level code before asyncio.run: the device directory, how far the set-up is, the devices found

vars == <<mode_manager, event_queue, pc, running, todo, wphase, image, oled, font,
          watcher_sleep, net_sleep, net, handling, last_event, since_interaction,
          run, arrived, order, seen, startup>>

----------------------------------------------------------------------------
(* Program constants *)

MODES == <<"Off", "NWS Balloon", "HAM Balloon", "ADS-B", "APRS">>
NumModes == Len(MODES)
timeout_seconds == 5
WatchPeriod == 1
NetPeriod == 5

ICON_WIFI == "ICON_WIFI"
ICON_ETH == "ICON_ETH"
ICON_NO_CONN == "ICON_NO_CONN"
None == "None"

(* Bounds of the model *)
MaxQueue == 1
MaxRun == 6
MaxBurst == 1
MaxSamples == 3
MaxInterfaces == 2
MaxEntries == 3

(* Ages saturate one step past the largest value anything is compared with. *)
AgeCap == timeout_seconds + WatchPeriod + 1
Older(a) == IF a.sec + 1 < AgeCap THEN [a EXCEPT !.sec = a.sec + 1]
            ELSE [sec |-> AgeCap, more |-> FALSE]
Exceeds(a, limit) == a.sec > limit \/ (a.sec = limit /\ a.more)

Children == {"rotary", "button", "process_events", "network"}
Tasks == Children \cup {"inactivity", "main"}

----------------------------------------------------------------------------
(* The display *)

width == 128
height == 64
TextSize == 16
IconSize == 18

Regions == {"mode", "status", "bye", "icon", "net"}
Blank == <<>>
BlankFrame == [r \in Regions |-> Blank]

\* position=(0, 0) is the mode line, (0, 24) the status line, (28, 32) the
\* goodbye text, (0, 50) the network icon and (20, 50) the network text.
Position ==
    [mode |-> <<0, 0>>, status |-> <<0, 24>>, bye |-> <<28, 32>>,
     icon |-> <<0, 50>>, net |-> <<20, 50>>]

DrawCall(kind, region, text, clear_screen) ==
    [kind |-> kind, region |-> region, text |-> text, clear_screen |-> clear_screen]

\* What ImageFont.truetype(...).getbbox gives.  The font files are outside
\* the source, so a font is one of two: "uniform", whose box is the whole
\* line height for every text, and "tight", whose box hugs the glyphs of the
\* text, as FreeType's does: letters and digits stand on the base line,
\* brackets reach over and under them, descenders under.  advance is the
\* width of a character, rows are <<top, bottom>>.
Fonts == {"uniform", "tight"}
Metrics ==
    [uniform |-> [advance |-> TextSize \div 2, letters |-> <<0, TextSize>>,
                  brackets |-> <<0, TextSize>>, descenders |-> <<0, TextSize>>],
     tight |-> [advance |-> TextSize \div 2, letters |-> <<3, 13>>,
                brackets |-> <<2, 15>>, descenders |-> <<3, 16>>]]

HasBrackets(piece) == piece \in {"Mode: (", ")"}
HasDescenders(piece) == piece \in {"Activating...", "Deactivating...", "Goodbye!"}

RECURSIVE Characters(_)
Characters(text) == IF text = <<>> THEN 0 ELSE Len(Head(text)) + Characters(Tail(text))

Least(a, b) == IF a < b THEN a ELSE b
Most(a, b) == IF a > b THEN a ELSE b

\* left, top, right, bottom = self.font.getbbox(text); an icon is one glyph
\* of the icon font
getbbox(face, kind, text) ==
    IF kind = "icon" THEN <<0, 0, IconSize, IconSize>>
    ELSE LET m == Metrics[face]
             brackets == \E i \in DOMAIN text : HasBrackets(text[i])
             descenders == \E i \in DOMAIN text : HasDescenders(text[i])
             top == IF brackets THEN Least(m.brackets[1], m.letters[1]) ELSE m.letters[1]
             low == IF brackets THEN Most(m.brackets[2], m.letters[2]) ELSE m.letters[2]
             bottom == IF descenders THEN Most(m.descenders[2], low) ELSE low
         IN  <<0, top, m.advance * Characters(text), bottom>>

KindOf(region) == IF region = "icon" THEN "icon" ELSE "text"

\* The pixels a text drawn at a region's position has ink in: its box, moved
\* to the position and cut at the screen's edges
InkBox(face, region, text) ==
    LET box == getbbox(face, KindOf(region), text)
        x == Position[region][1]
        y == Position[region][2]
    IN  <<x + box[1], y + box[2], Least(x + box[3], width), Least(y + box[4], height)>>

\* ImageDraw.rectangle fills both corners' rows and columns
Inside(box, rectangle) ==
    /\ box[1] >= rectangle[1]
    /\ box[2] >= rectangle[2]
    /\ box[3] - 1 <= rectangle[3]
    /\ box[4] - 1 <= rectangle[4]

\* The rectangles a draw call fills with 0 before it draws: draw_text's goes
\* from the text's left edge to the right edge of the screen over the rows
\* of the new text's box, draw_icon's from the icon's left edge to
\* width - (x + right); clear_screen adds the whole screen.
ClearedByBoxOnly(face, call) ==
    LET box == getbbox(face, call.kind, call.text)
        x == Position[call.region][1]
        y == Position[call.region][2]
    IN  {IF call.kind = "icon"
         THEN <<x + box[1], y + box[2], width - (x + box[3]), y + box[4]>>
         ELSE <<x + box[1], y + box[2], width, y + box[4]>>}

ClearedBy(face, call) ==
    LET box == getbbox(face, call.kind, call.text)
        x == Position[call.region][1]
        y == Position[call.region][2]
    IN  {IF call.kind = "icon"
         THEN <<x + box[1], y + box[2], width - (x + box[3]), y + box[4]>>
         ELSE <<x + box[1], y + box[2], width, y + box[4]>>}
        \cup (IF call.clear_screen THEN {<<0, 0, width, height>>} ELSE {})

\* A text stays on the frame unless a rectangle covers all of its box
ClearImage(face, img, call) ==
    LET rectangles == ClearedBy(face, call)
    IN  [r \in Regions |->
            LET Stays(text) ==
                    \A rectangle \in rectangles : ~Inside(InkBox(face, r, text), rectangle)
            IN  IF img[r] = <<>> THEN <<>> ELSE SelectSeq(img[r], Stays)]

TextImage(img, call) ==
    LET Other(text) == text # call.text
    IN  [img EXCEPT ![call.region] = Append(SelectSeq(@, Other), call.text)]

\* The text drawn last at a region, which lies over what is left of the others
Shown(frame, region) ==
    IF frame[region] = <<>> THEN Blank ELSE frame[region][Len(frame[region])]

----------------------------------------------------------------------------
(* ModeStateMachine.  A method is an operator from the object to the object
   after the call and the draw calls it made, in order. *)

\* The ages a clock reading taken now can have, asyncio.get_event_loop().time().
\* A reading taken when the watcher's timer is due is older than k seconds
\* at the k-th wake-up after the one that is due.  A reading taken while the
\* watcher sleeps is older than k seconds at its k-th wake-up when it was
\* taken so soon after the last one that the periods' lateness makes up for
\* the delay, and is not when it was taken later.
JustNow == {[sec |-> 0, more |-> m] : m \in IF watcher_sleep = 0 THEN {TRUE} ELSE BOOLEAN}

get_selected_mode(self) == MODES[self.selected_mode_index + 1]
get_active_mode(self) == MODES[self.active_mode_index + 1]

\* f"Mode: ({...})" and f"Mode: {...}", kept as the pieces of the string
PreviewText(name) == <<"Mode: (", name, ")">>
ActiveText(name) == <<"Mode: ", name>>

update_display_keeps_panel(self) == [self |-> self, draws |-> <<>>]

update_display(self) ==
    [self |-> self,
     draws |-> <<DrawCall("text", "mode", PreviewText(get_selected_mode(self)), FALSE)>>]

display_active_mode_resets_selection(self) ==
    [self |-> [self EXCEPT !.selected_mode_index = self.active_mode_index],
     draws |-> <<DrawCall("text", "mode", ActiveText(get_active_mode(self)), FALSE)>>]

display_active_mode_shows_preview(self) ==
    [self |-> self,
     draws |-> <<DrawCall("text", "mode", PreviewText(get_selected_mode(self)), FALSE)>>]

display_active_mode(self) ==
    [self |-> self,
     draws |-> <<DrawCall("text", "mode", ActiveText(get_active_mode(self)), FALSE)>>]

next_mode_wraps_early(self, direction, now) ==
    LET moved == [self EXCEPT
                    !.selected_mode_index = (self.selected_mode_index + direction) % (NumModes - 1),
                    !.last_knob_age = now]
    IN  update_display(moved)

next_mode(self, direction, now) ==
    LET moved == [self EXCEPT
                    !.selected_mode_index = (self.selected_mode_index + direction) % NumModes,
                    !.last_knob_age = now]
    IN  update_display(moved)

ActivationText(self) ==
    IF self.active_mode_index = 0 THEN <<"Deactivating...">> ELSE <<"Activating...">>

activate_resets_selection(self, now) ==
    LET on == [self EXCEPT !.active_mode_index = self.selected_mode_index,
                           !.selected_mode_index = 0,
                           !.last_knob_age = now]
    IN  [self |-> on,
         draws |-> <<DrawCall("text", "mode", ActiveText(get_active_mode(on)), FALSE),
                     DrawCall("text", "status", ActivationText(on), FALSE)>>]

activate(self, now) ==
    LET on == [self EXCEPT !.active_mode_index = self.selected_mode_index,
                           !.last_knob_age = now]
    IN  [self |-> on,
         draws |-> <<DrawCall("text", "mode", ActiveText(get_active_mode(on)), FALSE),
                     DrawCall("text", "status", ActivationText(on), FALSE)>>]

handle_event(self, event, now) ==
    LET touched == [self EXCEPT !.last_knob_age = now]
    IN  CASE event = "knob_forward"   -> next_mode(touched, 1, now)
          [] event = "knob_backward"  -> next_mode(touched, -1, now)
          [] event = "button_pressed" -> activate(touched, now)
          [] OTHER                    -> [self |-> touched, draws |-> <<>>]

\* monitor_inactivity's test: time() - last_knob_time > timeout_seconds
InactivityExpiredAtTimeout(self) == self.last_knob_age.sec >= timeout_seconds

InactivityExpired(self) == Exceeds(self.last_knob_age, timeout_seconds)

monitor_inactivity(self) ==
    IF InactivityExpired(self) THEN display_active_mode(self)
    ELSE [self |-> self, draws |-> <<>>]

----------------------------------------------------------------------------
(* Network status.  psutil.net_if_addrs() is a sequence of interfaces in the
   dict's order, each with its name (a sequence of characters) and addresses. *)

Contains(sub, name) ==
    \E i \in 1..(Len(name) - Len(sub) + 1) : SubSeq(name, i, i + Len(sub) - 1) = sub

IsEthName(name) == Contains(<<"e", "t", "h">>, name) \/ Contains(<<"e", "n">>, name)
IsWifiName(name) == Contains(<<"w", "l", "a", "n">>, name) \/ Contains(<<"w", "i", "f", "i">>, name)

RECURSIVE FirstInet(_)
FirstInet(addrs) ==
    IF addrs = <<>> THEN None
    ELSE IF Head(addrs).family = "AF_INET" THEN Head(addrs).address
    ELSE FirstInet(Tail(addrs))

RECURSIVE Lookup(_, _)
Lookup(interfaces, name) ==
    IF interfaces = <<>> THEN <<>>
    ELSE IF Head(interfaces).name = name THEN Head(interfaces).addrs
    ELSE Lookup(Tail(interfaces), name)

get_ip_address(interfaces, name) == FirstInet(Lookup(interfaces, name))

\* "if ip:" is false for None and for the empty string
Truthy(text) == text # None /\ text # ""

RECURSIVE FirstLive(_, _, _)
FirstLive(interfaces, rest, eth) ==
    IF rest = <<>> THEN None
    ELSE LET iface == Head(rest).name
             match == IF eth THEN IsEthName(iface) ELSE IsWifiName(iface)
             ip    == get_ip_address(interfaces, iface)
         IN  IF match /\ Truthy(ip) THEN ip ELSE FirstLive(interfaces, Tail(rest), eth)

get_network_status_wifi_first(interfaces) ==
    LET eth  == FirstLive(interfaces, interfaces, TRUE)
        wifi == FirstLive(interfaces, interfaces, FALSE)
    IN  IF wifi # None THEN [icon |-> ICON_WIFI, ip |-> wifi]
        ELSE IF eth # None THEN [icon |-> ICON_ETH, ip |-> eth]
        ELSE [icon |-> ICON_NO_CONN, ip |-> "Not Connected"]

get_network_status(interfaces) ==
    LET eth  == FirstLive(interfaces, interfaces, TRUE)
        wifi == FirstLive(interfaces, interfaces, FALSE)
    IN  IF eth # None THEN [icon |-> ICON_ETH, ip |-> eth]
        ELSE IF wifi # None THEN [icon |-> ICON_WIFI, ip |-> wifi]
        ELSE [icon |-> ICON_NO_CONN, ip |-> "Not Connected"]

\* iwgetid -r prints the SSID, or nothing; "ERR" is a CalledProcessError
get_wifi_ssid(output) == IF output = "ERR" \/ output = "" THEN None ELSE output

IfEth == [name |-> <<"e", "t", "h", "0">>,
          addrs |-> <<[family |-> "AF_INET", address |-> "10.0.0.5"]>>]
IfWlan == [name |-> <<"w", "l", "a", "n", "0">>,
           addrs |-> <<[family |-> "AF_PACKET", address |-> "b8:27:eb:00:00:01"],
                       [family |-> "AF_INET", address |-> "192.168.1.9"]>>]
IfLo == [name |-> <<"l", "o">>,
         addrs |-> <<[family |-> "AF_INET", address |-> "127.0.0.1"]>>]

Snapshots == {<<IfLo, IfWlan>>}
IwgetidOutputs == {"home"}

\* The hosts the network monitor is checked on: up to MaxInterfaces
\* interfaces in any order (a dict: no name twice), with and without an IPv4
\* address, and iwgetid printing an SSID, nothing, or failing.
IfEthDown == [name |-> <<"e", "n", "p", "3", "s", "0">>,
              addrs |-> <<[family |-> "AF_PACKET", address |-> "b8:27:eb:00:00:02"]>>]
IfWlanDown == [name |-> <<"w", "i", "f", "i", "1">>, addrs |-> <<>>]
Interfaces == {IfEth, IfWlan, IfLo, IfEthDown, IfWlanDown}
HostSnapshots ==
    {<<>>} \cup {<<a>> : a \in Interfaces}
    \cup {s \in UNION {[1..n -> Interfaces] : n \in 2..MaxInterfaces} :
             \A i, j \in DOMAIN s : i # j => s[i] # s[j]}
HostOutputs == {"home", "", "ERR"}

\* asyncio.sleep(5) in periods of the watcher: the two timers run on their
\* own and both end late, so the five seconds are over at the fourth, the
\* fifth or the sixth wake-up of the watcher
NetSleeps == (NetPeriod - 1)..(NetPeriod + 1)

\* One pass of update_network_status's loop body
network_pass(locals, interfaces, output) ==
    LET status == get_network_status(interfaces)
        icon == status.icon
        ip == status.ip
        ssid == IF icon = ICON_WIFI THEN get_wifi_ssid(output) ELSE None
        changed == icon # locals.last_icon \/ ip # locals.last_ip \/ ssid # locals.last_ssid
        toggles == icon = ICON_WIFI /\ ssid # None
        display_text == IF toggles THEN (IF locals.show_ip THEN ip ELSE ssid) ELSE ip
    IN  [locals |-> [last_icon |-> icon, last_ip |-> ip, last_ssid |-> ssid,
                     show_ip |-> IF toggles THEN ~locals.show_ip ELSE locals.show_ip],
         draws |-> (IF changed THEN <<DrawCall("icon", "icon", <<icon>>, FALSE)>> ELSE <<>>)
                   \o <<DrawCall("text", "net", <<display_text>>, FALSE)>>]

----------------------------------------------------------------------------
(* Input samples.  An evdev event has a type, a code and a value. *)

EV_REL == "EV_REL"
EV_KEY == "EV_KEY"
EV_SYN == "EV_SYN"
KEY_A == "KEY_A"
KEY_B == "KEY_B"
REL_X == "REL_X"

RotarySamples ==
    {[type |-> EV_REL, code |-> REL_X, value |-> v] : v \in {-1, 1}}
    \cup {[type |-> EV_SYN, code |-> "SYN_REPORT", value |-> 0]}
ButtonSamples ==
    {[type |-> EV_KEY, code |-> c, value |-> v] : c \in {KEY_A, KEY_B}, v \in {0, 1, 2}}
    \cup {[type |-> EV_SYN, code |-> "SYN_REPORT", value |-> 0]}

\* The body of input()'s loop: the events one sample puts on the queue
input(device, event) ==
    IF device = "rotary" /\ event.type = EV_REL
    THEN <<IF event.value > 0 THEN "knob_forward" ELSE "knob_backward">>
    ELSE IF device = "button" /\ event.type = EV_KEY
    THEN IF event.code = KEY_A
         THEN <<IF event.value = 1 THEN "button_pressed" ELSE "button_released">>
         ELSE <<>>
    ELSE <<>>

----------------------------------------------------------------------------
(* Device set-up, the module-level code that runs before asyncio.run.
   /dev/input/by-path is what os.listdir gives: the entries in the
   directory's order, or an OSError.  A path is kept as the pieces of its
   name; an entry says whether evdev.InputDevice can open it. *)

PATTERN_ROTARY == <<"platform-", "rotary">>
PATTERN_BUTTON == <<"platform-", "button">>

PathRotary == <<"platform-", "rotary", "@4", "-event">>
PathRotaryB == <<"platform-", "rotary", "@6", "-event">>
PathButton == <<"platform-", "button", "@5", "-event">>
PathKeyboard == <<"platform-", "fe9c0000.usb", "-usb-0:1", "-event-kbd">>
Paths == {PathRotary, PathRotaryB, PathButton, PathKeyboard}

\* The first entry that matches is opened; no match raises FileNotFoundError
\* inside the try, which like the PermissionError and OSError of listdir and
\* of InputDevice is raised again as RuntimeError.
\* no device object
NoDevice == <<>>

RECURSIVE find_input_device_or_none(_, _)
find_input_device_or_none(by_path, pattern) ==
    IF by_path.error THEN [device |-> NoDevice, error |-> None]
    ELSE IF by_path.entries = <<>> THEN [device |-> NoDevice, error |-> None]
    ELSE IF Contains(pattern, Head(by_path.entries).path)
    THEN [device |-> Head(by_path.entries).path, error |-> None]
    ELSE find_input_device_or_none([by_path EXCEPT !.entries = Tail(by_path.entries)], pattern)

RECURSIVE find_input_device(_, _)
find_input_device(by_path, pattern) ==
    IF by_path.error THEN [device |-> NoDevice, error |-> "RuntimeError"]
    ELSE IF by_path.entries = <<>> THEN [device |-> NoDevice, error |-> "RuntimeError"]
    ELSE IF Contains(pattern, Head(by_path.entries).path)
    THEN IF Head(by_path.entries).opens
         THEN [device |-> Head(by_path.entries).path, error |-> None]
         ELSE [device |-> NoDevice, error |-> "RuntimeError"]
    ELSE find_input_device([by_path EXCEPT !.entries = Tail(by_path.entries)], pattern)

\* The set-up once both devices are found, the queue is made and main runs
Started ==
    [phase |-> "running",
     by_path |-> [error |-> FALSE,
                  entries |-> <<[path |-> PathButton, opens |-> TRUE],
                                [path |-> PathRotary, opens |-> TRUE]>>],
     rotary_knob |-> PathRotary,
     button |-> PathButton,
     constructed |-> {"event_queue", "display", "mode_manager"},
     error |-> None]

NotSeen == [interfaces |-> <<>>, output |-> ""]

NoOrder == [rotary |-> <<>>, button |-> <<>>, enqueued |-> <<>>, applied |-> <<>>]

----------------------------------------------------------------------------
(* The state after main() has built the display and the state machine
   (whose constructor draws the preview of mode 0), created its tasks and
   reached its await of asyncio.gather. *)

Init ==
    /\ mode_manager = [selected_mode_index |-> 0, active_mode_index |-> 0,
                       last_knob_age |-> [sec |-> 0, more |-> TRUE]]
    /\ event_queue = <<>>
    /\ pc = [t \in Tasks |-> IF t = "main" THEN "gather" ELSE "wait"]
    /\ running = {}
    /\ todo = [t \in Tasks |-> <<>>]
    /\ wphase = [t \in Tasks |-> "none"]
    /\ image = [BlankFrame EXCEPT !["mode"] = <<PreviewText(MODES[1])>>]
    /\ oled = [BlankFrame EXCEPT !["mode"] = <<PreviewText(MODES[1])>>]
    /\ font \in Fonts
    /\ watcher_sleep = WatchPeriod
    /\ net_sleep = 0
    /\ net = [last_icon |-> None, last_ip |-> None, last_ssid |-> None, show_ip |-> TRUE]
    /\ handling = "none"
    /\ last_event = "other"
    /\ since_interaction = [sec |-> 0, more |-> TRUE]
    /\ run = [start |-> 0, len |-> 0]
    /\ arrived = 0
    /\ order = NoOrder
    /\ seen = NotSeen
    /\ startup = Started

----------------------------------------------------------------------------
(* Scheduling.  asyncio runs one task at a time, from one await to the next. *)

CanRunThreaded(t) == t \notin running

CanRun(t) == running = {}

\* A handler that has draw calls to make keeps the loop until the last is shown.
Start(t, draws) ==
    /\ todo' = [todo EXCEPT ![t] = draws]
    /\ running' = IF draws = <<>> THEN running ELSE running \cup {t}

\* event_queue.get() returns without suspending while the queue has events,
\* so process_events goes on to the next event in the same run.
Suspends(t, queue) == t # "process_events" \/ queue = <<>>

EveryEvent == {"knob_forward", "knob_backward", "button_pressed", "button_released"}

InteractionEvents == {"knob_forward", "knob_backward", "button_pressed"}

\* event_queue is an asyncio.Queue: get() takes the event that was put first
QueueGetNewest(queue) ==
    [event |-> queue[Len(queue)], rest |-> SubSeq(queue, 1, Len(queue) - 1)]

QueueGet(queue) == [event |-> Head(queue), rest |-> Tail(queue)]

(* input(rotary_knob) and input(button): one sample read and normalised *)
RotaryInput ==
    /\ pc["rotary"] = "wait"
    /\ CanRun("rotary")
    /\ \E event \in RotarySamples :
          /\ Len(event_queue) + Len(input("rotary", event)) <= MaxQueue
          /\ event_queue' = event_queue \o input("rotary", event)
    /\ UNCHANGED <<mode_manager, pc, running, todo, wphase, image, oled, watcher_sleep,
                   net_sleep, net, handling, last_event, since_interaction>>

ButtonInput ==
    /\ pc["button"] = "wait"
    /\ CanRun("button")
    /\ \E event \in ButtonSamples :
          /\ Len(event_queue) + Len(input("button", event)) <= MaxQueue
          /\ event_queue' = event_queue \o input("button", event)
    /\ UNCHANGED <<mode_manager, pc, running, todo, wphase, image, oled, watcher_sleep,
                   net_sleep, net, handling, last_event, since_interaction>>

(* process_events: one event taken from the queue and handled *)
ProcessEvents ==
    /\ pc["process_events"] = "wait"
    /\ \/ "process_events" \notin running /\ CanRun("process_events")
       \/ "process_events" \in running /\ todo["process_events"] = <<>>
    /\ event_queue # <<>>
    /\ \E now \in JustNow :
          LET got == QueueGet(event_queue)
              event == got.event
              r == IF event \in InteractionEvents
                   THEN handle_event(mode_manager, event, now)
                   ELSE [self |-> mode_manager, draws |-> <<>>]
          IN  /\ event_queue' = got.rest
              /\ mode_manager' = r.self
              /\ todo' = [todo EXCEPT !["process_events"] = r.draws]
              /\ running' = IF r.draws = <<>> /\ Suspends("process_events", got.rest)
                            THEN running \ {"process_events"}
                            ELSE running \cup {"process_events"}
              /\ handling' = IF event \in InteractionEvents THEN event ELSE handling
              /\ since_interaction' = IF event \in InteractionEvents THEN now
                                      ELSE since_interaction
    /\ UNCHANGED <<pc, wphase, image, oled, watcher_sleep, net_sleep, net, last_event>>

(* monitor_inactivity: one wake-up after asyncio.sleep(1) *)
MonitorInactivity ==
    /\ pc["inactivity"] = "wait"
    /\ CanRun("inactivity")
    /\ watcher_sleep = 0
    /\ LET r == monitor_inactivity(mode_manager)
       IN  /\ mode_manager' = r.self
           /\ Start("inactivity", r.draws)
    /\ watcher_sleep' = WatchPeriod
    /\ UNCHANGED <<event_queue, pc, wphase, image, oled, net_sleep, net, handling,
                   last_event, since_interaction>>

(* update_network_status: one pass of its loop, then asyncio.sleep(5) *)
NetworkStatusPass(interfaces, output) ==
    /\ pc["network"] = "wait"
    /\ CanRun("network")
    /\ net_sleep = 0
    /\ LET r == network_pass(net, interfaces, output)
       IN  /\ net' = r.locals
           /\ Start("network", r.draws)
    /\ net_sleep' \in NetSleeps
    /\ UNCHANGED <<mode_manager, event_queue, pc, wphase, image, oled, watcher_sleep,
                   handling, last_event, since_interaction>>

UpdateNetworkStatus ==
    /\ \E interfaces \in Snapshots, output \in IwgetidOutputs :
          NetworkStatusPass(interfaces, output)

(* draw_text / draw_icon, in three steps *)
DrawClear(t) ==
    /\ t \in running
    /\ todo[t] # <<>>
    /\ wphase[t] = "none"
    /\ image' = ClearImage(font, image, Head(todo[t]))
    /\ wphase' = [wphase EXCEPT ![t] = "cleared"]
    /\ UNCHANGED <<mode_manager, event_queue, pc, running, todo, oled, watcher_sleep,
                   net_sleep, net, handling, last_event, since_interaction>>

DrawText(t) ==
    /\ t \in running
    /\ wphase[t] = "cleared"
    /\ image' = TextImage(image, Head(todo[t]))
    /\ wphase' = [wphase EXCEPT ![t] = "drawn"]
    /\ UNCHANGED <<mode_manager, event_queue, pc, running, todo, oled, watcher_sleep,
                   net_sleep, net, handling, last_event, since_interaction>>

DrawShow(t) ==
    /\ t \in running
    /\ wphase[t] = "drawn"
    /\ oled' = image
    /\ wphase' = [wphase EXCEPT ![t] = "none"]
    /\ todo' = [todo EXCEPT ![t] = Tail(todo[t])]
    /\ LET finished == Tail(todo[t]) = <<>>
       IN  /\ running' = IF finished /\ Suspends(t, event_queue) THEN running \ {t} ELSE running
           /\ IF finished /\ t = "process_events"
              THEN /\ last_event' = IF handling = "button_pressed" THEN "confirm" ELSE "other"
                   /\ handling' = "none"
              ELSE UNCHANGED <<last_event, handling>>
    /\ UNCHANGED <<mode_manager, event_queue, pc, image, watcher_sleep, net_sleep, net,
                   since_interaction>>

(* One period of the watcher passes.  The loop sleeps only when no task is
   ready. *)
Tick ==
    /\ pc["main"] = "gather"
    /\ running = {}
    /\ event_queue = <<>>
    /\ watcher_sleep > 0
    /\ net_sleep > 0
    /\ watcher_sleep' = watcher_sleep - 1
    /\ net_sleep' = net_sleep - 1
    /\ mode_manager' = [mode_manager EXCEPT !.last_knob_age = Older(mode_manager.last_knob_age)]
    /\ since_interaction' = Older(since_interaction)
    /\ UNCHANGED <<event_queue, pc, running, todo, wphase, image, oled, net, handling,
                   last_event>>

----------------------------------------------------------------------------
(* Shutdown.  asyncio.run turns SIGINT into main_task.cancel(); main waits in
   gather, whose cancel() cancels the four tasks of the list. *)

Interrupt ==
    /\ pc["main"] = "gather"
    /\ running = {}
    /\ pc' = [t \in Tasks |-> IF t \in Children \cup {"main"} THEN "cancel" ELSE pc[t]]
    /\ UNCHANGED <<mode_manager, event_queue, running, todo, wphase, image, oled,
                   watcher_sleep, net_sleep, net, handling, last_event, since_interaction>>

\* CancelledError is thrown into a cancelled task at its await when the loop
\* comes to it; each task is a callback of its own in the ready queue, where
\* the watcher's wake-up can stand between them.  None of them catches it.
Cancelled(t) ==
    /\ pc[t] = "cancel"
    /\ CanRun(t)
    /\ pc' = [pc EXCEPT ![t] = "done"]
    /\ UNCHANGED <<mode_manager, event_queue, running, todo, wphase, image, oled,
                   watcher_sleep, net_sleep, net, handling, last_event, since_interaction>>

\* main's except branch and finally block, up to the second gather
MainGoodbye ==
    /\ pc["main"] = "cancel"
    /\ \A t \in Children : pc[t] = "done"
    /\ CanRun("main")
    /\ Start("main", <<DrawCall("text", "bye", <<"Goodbye!">>, TRUE)>>)
    /\ pc' = [pc EXCEPT !["main"] = "final_gather"]
    /\ UNCHANGED <<mode_manager, event_queue, wphase, image, oled, watcher_sleep, net_sleep,
                   net, handling, last_event, since_interaction>>

MainExit ==
    /\ pc["main"] = "final_gather"
    /\ CanRun("main")
    /\ pc' = [pc EXCEPT !["main"] = "done"]
    /\ UNCHANGED <<mode_manager, event_queue, running, todo, wphase, image, oled,
                   watcher_sleep, net_sleep, net, handling, last_event, since_interaction>>

\* asyncio.run cancels the tasks that are left when main has returned
RunnerClose ==
    /\ pc["main"] = "done"
    /\ pc["inactivity"] = "wait"
    /\ running = {}
    /\ pc' = [pc EXCEPT !["inactivity"] = "cancel"]
    /\ UNCHANGED <<mode_manager, event_queue, running, todo, wphase, image, oled,
                   watcher_sleep, net_sleep, net, handling, last_event, since_interaction>>

----------------------------------------------------------------------------

Running ==
    \/ RotaryInput
    \/ ButtonInput
    \/ ProcessEvents
    \/ MonitorInactivity
    \/ UpdateNetworkStatus
    \/ \E t \in Tasks : DrawClear(t)
    \/ \E t \in Tasks : DrawText(t)
    \/ \E t \in Tasks : DrawShow(t)
    \/ Tick

Step ==
    \/ Running
    \/ Interrupt
    \/ \E t \in Children : Cancelled(t)
    \/ Cancelled("inactivity")
    \/ MainGoodbye
    \/ MainExit
    \/ RunnerClose

Next == Step /\ UNCHANGED <<run, arrived, order, seen, startup, font>>

Spec == Init /\ [][Next]_vars

\* The program while it runs: no shutdown signal comes
NextUninterrupted == Running /\ UNCHANGED <<run, arrived, order, seen, startup, font>>

SpecUninterrupted == Init /\ [][NextUninterrupted]_vars

\* LiveSpec is the program while it is not interrupted.  A second of loop
\* time is modelled as going by only when nothing is ready to run, so time
\* goes on only if the input devices deliver finitely many events within a
\* second: at most MaxBurst.  The loop runs every ready task (its ready
\* queue is first in, first out) and a handler runs to its await, so no task
\* step that stays enabled waits for ever, and time goes on.
Burst == (RotaryInput \/ ButtonInput) /\ arrived < MaxBurst /\ arrived' = arrived + 1

TaskSteps ==
    \/ ProcessEvents
    \/ MonitorInactivity
    \/ UpdateNetworkStatus
    \/ \E t \in Tasks : DrawClear(t)
    \/ \E t \in Tasks : DrawText(t)
    \/ \E t \in Tasks : DrawShow(t)

NextRunning ==
    \/ Burst /\ UNCHANGED <<run, order, seen, startup, font>>
    \/ TaskSteps /\ UNCHANGED <<run, arrived, order, seen, startup, font>>
    \/ Tick /\ arrived' = 0 /\ UNCHANGED <<run, order, seen, startup, font>>

Fairness ==
    /\ WF_vars(TaskSteps /\ UNCHANGED <<run, arrived, order, seen, startup, font>>)
    /\ WF_vars(Tick /\ arrived' = 0 /\ UNCHANGED <<run, order, seen, startup, font>>)

LiveSpec == Init /\ [][NextRunning]_vars /\ Fairness

----------------------------------------------------------------------------
(* Runs of knob_forward.  The state machine starts at any index (reached by
   that many rotations at start-up); the knob only turns forward, so the
   events processed are consecutive knob_forward events, while the watcher,
   the network monitor and time go on.  run counts them. *)

InitRotate ==
    \E i \in 0..(NumModes - 1), m \in BOOLEAN :
        /\ i = 0 => m
        /\ mode_manager = [selected_mode_index |-> i, active_mode_index |-> 0,
                           last_knob_age |-> [sec |-> 0, more |-> m]]
        /\ event_queue = <<>>
        /\ pc = [t \in Tasks |-> IF t = "main" THEN "gather" ELSE "wait"]
        /\ running = {}
        /\ todo = [t \in Tasks |-> <<>>]
        /\ wphase = [t \in Tasks |-> "none"]
        /\ image = [BlankFrame EXCEPT !["mode"] = <<PreviewText(MODES[i + 1])>>]
        /\ oled = [BlankFrame EXCEPT !["mode"] = <<PreviewText(MODES[i + 1])>>]
        /\ font \in Fonts
        /\ watcher_sleep = WatchPeriod
        /\ net_sleep = 0
        /\ net = [last_icon |-> None, last_ip |-> None, last_ssid |-> None, show_ip |-> TRUE]
        /\ handling = "none"
        /\ last_event = "other"
        /\ since_interaction = [sec |-> 0, more |-> m]
        /\ run = [start |-> i, len |-> 0]
        /\ arrived = 0
        /\ order = NoOrder
        /\ seen = NotSeen
        /\ startup = Started

ForwardInput ==
    /\ pc["rotary"] = "wait"
    /\ CanRun("rotary")
    /\ run.len + Len(event_queue) < MaxRun
    /\ Len(event_queue) < MaxQueue
    /\ event_queue' = event_queue \o input("rotary", [type |-> EV_REL, code |-> REL_X, value |-> 1])
    /\ UNCHANGED <<mode_manager, pc, running, todo, wphase, image, oled, watcher_sleep,
                   net_sleep, net, handling, last_event, since_interaction>>

NextRotate ==
    \/ ForwardInput /\ UNCHANGED <<run, arrived, order, seen, startup, font>>
    \/ ProcessEvents /\ run' = [run EXCEPT !.len = run.len + 1] /\ UNCHANGED <<arrived, order, seen, startup, font>>
    \/ MonitorInactivity /\ UNCHANGED <<run, arrived, order, seen, startup, font>>
    \/ UpdateNetworkStatus /\ UNCHANGED <<run, arrived, order, seen, startup, font>>
    \/ (\E t \in Tasks : DrawClear(t)) /\ UNCHANGED <<run, arrived, order, seen, startup, font>>
    \/ (\E t \in Tasks : DrawText(t)) /\ UNCHANGED <<run, arrived, order, seen, startup, font>>
    \/ (\E t \in Tasks : DrawShow(t)) /\ UNCHANGED <<run, arrived, order, seen, startup, font>>
    \/ Tick /\ UNCHANGED <<run, arrived, order, seen, startup, font>>

SpecRotate == InitRotate /\ [][NextRotate]_vars

----------------------------------------------------------------------------
(* The event path.  Each device produces samples, input() normalises them
   and puts the events on the queue, process_events takes them off; order
   keeps what was produced, put and taken, in order.  Up to MaxSamples
   samples are produced, so that many events can wait in the queue. *)

SampleInput(device) ==
    /\ pc[device] = "wait"
    /\ CanRun(device)
    /\ Len(order.rotary) + Len(order.button) < MaxSamples
    /\ \E event \in (IF device = "rotary" THEN RotarySamples ELSE ButtonSamples) :
          /\ event_queue' = event_queue \o input(device, event)
          /\ order' = [order EXCEPT ![device] = Append(@, event),
                                    !.enqueued = @ \o input(device, event)]
    /\ UNCHANGED <<mode_manager, pc, running, todo, wphase, image, oled, watcher_sleep,
                   net_sleep, net, handling, last_event, since_interaction>>

TakeEvent ==
    /\ ProcessEvents
    /\ order' = [order EXCEPT !.applied = Append(@, QueueGet(event_queue).event)]

NextOrder ==
    \/ SampleInput("rotary") /\ UNCHANGED <<run, arrived, seen, startup, font>>
    \/ SampleInput("button") /\ UNCHANGED <<run, arrived, seen, startup, font>>
    \/ TakeEvent /\ UNCHANGED <<run, arrived, seen, startup, font>>
    \/ MonitorInactivity /\ UNCHANGED <<run, arrived, order, seen, startup, font>>
    \/ UpdateNetworkStatus /\ UNCHANGED <<run, arrived, order, seen, startup, font>>
    \/ (\E t \in Tasks : DrawClear(t)) /\ UNCHANGED <<run, arrived, order, seen, startup, font>>
    \/ (\E t \in Tasks : DrawText(t)) /\ UNCHANGED <<run, arrived, order, seen, startup, font>>
    \/ (\E t \in Tasks : DrawShow(t)) /\ UNCHANGED <<run, arrived, order, seen, startup, font>>
    \/ Tick /\ UNCHANGED <<run, arrived, order, seen, startup, font>>

SpecOrder == Init /\ [][NextOrder]_vars

----------------------------------------------------------------------------
(* The network monitor on a host whose interfaces and Wi-Fi association
   change from pass to pass; seen keeps what the last pass read.  The
   watcher and time go on; there is no input. *)

ReadNetwork ==
    \E interfaces \in HostSnapshots, output \in HostOutputs :
        /\ NetworkStatusPass(interfaces, output)
        /\ seen' = [interfaces |-> interfaces, output |-> output]

NextNetwork ==
    \/ ReadNetwork /\ UNCHANGED <<run, arrived, order, startup, font>>
    \/ MonitorInactivity /\ UNCHANGED <<run, arrived, order, seen, startup, font>>
    \/ (\E t \in Tasks : DrawClear(t)) /\ UNCHANGED <<run, arrived, order, seen, startup, font>>
    \/ (\E t \in Tasks : DrawText(t)) /\ UNCHANGED <<run, arrived, order, seen, startup, font>>
    \/ (\E t \in Tasks : DrawShow(t)) /\ UNCHANGED <<run, arrived, order, seen, startup, font>>
    \/ Tick /\ UNCHANGED <<run, arrived, order, seen, startup, font>>

SpecNetwork == Init /\ [][NextNetwork]_vars

----------------------------------------------------------------------------
(* The display on its own: a caller makes the program's draw calls on it in
   any order, one at a time or a partial draw with the full refresh right
   behind it.  PartialRequests are the draws of the mode line and the status
   line, NetworkRequests those update_network_status makes on the hosts of
   HostSnapshots and HostOutputs (the three icons, the addresses, "Not
   Connected" and the SSID), FullRefresh the one draw that clears the whole
   screen. *)

PartialRequests ==
    {DrawCall("text", "mode", <<"Mode: (", MODES[i], ")">>, FALSE) : i \in 1..5}
    \cup {DrawCall("text", "mode", <<"Mode: ", MODES[i]>>, FALSE) : i \in 1..5}
    \cup {DrawCall("text", "status", <<t>>, FALSE) : t \in {"Activating...", "Deactivating..."}}
NetworkRequests ==
    {DrawCall("icon", "icon", <<get_network_status(interfaces).icon>>, FALSE) :
        interfaces \in HostSnapshots}
    \cup {DrawCall("text", "net", <<get_network_status(interfaces).ip>>, FALSE) :
            interfaces \in HostSnapshots}
    \cup {DrawCall("text", "net", <<get_wifi_ssid(output)>>, FALSE) :
            output \in {o \in HostOutputs : get_wifi_ssid(o) # None}}
FullRefresh == DrawCall("text", "bye", <<"Goodbye!">>, TRUE)

\* A draw call carried out on a frame
Drained(frame, call) == TextImage(ClearImage(font, frame, call), call)
GoodbyeFrame == [r \in Regions |-> IF r = "bye" THEN << <<"Goodbye!">> >> ELSE <<>>]

Requests ==
    /\ running = {}
    /\ \E calls \in {<<call>> : call \in PartialRequests \cup NetworkRequests \cup {FullRefresh}}
                     \cup {<<call, FullRefresh>> : call \in PartialRequests} :
          Start("main", calls)
    /\ UNCHANGED <<mode_manager, event_queue, pc, wphase, image, oled, watcher_sleep,
                   net_sleep, net, handling, last_event, since_interaction>>

NextDisplay ==
    \/ Requests /\ UNCHANGED <<run, arrived, order, seen, startup, font>>
    \/ DrawClear("main") /\ UNCHANGED <<run, arrived, order, seen, startup, font>>
    \/ DrawText("main") /\ UNCHANGED <<run, arrived, order, seen, startup, font>>
    \/ DrawShow("main") /\ UNCHANGED <<run, arrived, order, seen, startup, font>>

SpecDisplay == Init /\ [][NextDisplay]_vars

----------------------------------------------------------------------------
(* Start-up on any device directory of up to MaxEntries entries: the two
   find_input_device calls, the queue, then asyncio.run(main()), which
   builds the display and the state machine and creates the tasks.  Before
   that there is no display, no state machine and no task. *)

Entries == {[path |-> p, opens |-> o] : p \in Paths, o \in BOOLEAN}
Directories ==
    {[error |-> TRUE, entries |-> <<>>]}
    \cup {[error |-> FALSE, entries |-> s] :
            s \in {<<>>} \cup {t \in UNION {[1..n -> Entries] : n \in 1..MaxEntries} :
                                 \A i, j \in DOMAIN t : i # j => t[i].path # t[j].path}}

InitStartup ==
    /\ startup \in {[phase |-> "find_rotary", by_path |-> d, rotary_knob |-> NoDevice,
                      button |-> NoDevice, constructed |-> {}, error |-> None] :
                        d \in Directories}
    /\ mode_manager = [selected_mode_index |-> 0, active_mode_index |-> 0,
                       last_knob_age |-> [sec |-> 0, more |-> FALSE]]
    /\ event_queue = <<>>
    /\ pc = [t \in Tasks |-> "none"]
    /\ running = {}
    /\ todo = [t \in Tasks |-> <<>>]
    /\ wphase = [t \in Tasks |-> "none"]
    /\ image = BlankFrame
    /\ oled = BlankFrame
    /\ font \in Fonts
    /\ watcher_sleep = WatchPeriod
    /\ net_sleep = 0
    /\ net = [last_icon |-> None, last_ip |-> None, last_ssid |-> None, show_ip |-> TRUE]
    /\ handling = "none"
    /\ last_event = "other"
    /\ since_interaction = [sec |-> 0, more |-> FALSE]
    /\ run = [start |-> 0, len |-> 0]
    /\ arrived = 0
    /\ order = NoOrder
    /\ seen = NotSeen

StartupFrame ==
    UNCHANGED <<mode_manager, event_queue, pc, running, todo, wphase, image, oled,
                font, watcher_sleep, net_sleep, net, handling, last_event, since_interaction,
                run, arrived, order, seen>>

\* rotary_knob = find_input_device("platform-rotary")
FindRotary ==
    /\ startup.phase = "find_rotary"
    /\ LET found == find_input_device(startup.by_path, PATTERN_ROTARY)
       IN  startup' = IF found.error = None
                      THEN [startup EXCEPT !.rotary_knob = found.device, !.phase = "find_button"]
                      ELSE [startup EXCEPT !.error = found.error, !.phase = "aborted"]
    /\ StartupFrame

\* button = find_input_device("platform-button")
FindButton ==
    /\ startup.phase = "find_button"
    /\ LET found == find_input_device(startup.by_path, PATTERN_BUTTON)
       IN  startup' = IF found.error = None
                      THEN [startup EXCEPT !.button = found.device, !.phase = "queue"]
                      ELSE [startup EXCEPT !.error = found.error, !.phase = "aborted"]
    /\ StartupFrame

\* event_queue = asyncio.Queue()
CreateQueue ==
    /\ startup.phase = "queue"
    /\ startup' = [startup EXCEPT !.constructed = @ \cup {"event_queue"}, !.phase = "entry"]
    /\ StartupFrame

\* asyncio.run(main()), up to main's await of gather
RunMain ==
    /\ startup.phase = "entry"
    /\ startup' = [startup EXCEPT !.constructed = @ \cup {"display", "mode_manager"},
                                  !.phase = "running"]
    /\ mode_manager' = [selected_mode_index |-> 0, active_mode_index |-> 0,
                        last_knob_age |-> [sec |-> 0, more |-> TRUE]]
    /\ pc' = [t \in Tasks |-> IF t = "main" THEN "gather" ELSE "wait"]
    /\ image' = [BlankFrame EXCEPT !["mode"] = <<PreviewText(MODES[1])>>]
    /\ oled' = [BlankFrame EXCEPT !["mode"] = <<PreviewText(MODES[1])>>]
    /\ since_interaction' = [sec |-> 0, more |-> TRUE]
    /\ UNCHANGED <<event_queue, running, todo, wphase, font, watcher_sleep, net_sleep, net,
                   handling, last_event, run, arrived, order, seen>>

NextStartup ==
    \/ FindRotary
    \/ FindButton
    \/ CreateQueue
    \/ RunMain

SpecStartup == InitStartup /\ [][NextStartup]_vars

----------------------------------------------------------------------------
(* Claims *)

selected_index == mode_manager.selected_mode_index
active_index == mode_manager.active_mode_index

\* C1: after k consecutive knob_forward events from index i, the selected
\* index is (i + k) mod 5; from 0, five forwards give 0 and three give 3.
C1_ForwardRun ==
    /\ selected_index = (run.start + run.len) % 5
    /\ (run.start = 0 /\ run.len = 5) => selected_index = 0
    /\ (run.start = 0 /\ run.len = 3) => selected_index = 3

C1_Witness ==
    /\ run.start = 3
    /\ run.len = 5
    /\ running = {}
    /\ mode_manager.last_knob_age.sec > 0

ProcessesEvent(e) ==
    /\ event_queue # <<>>
    /\ Head(event_queue) = e
    /\ event_queue' = Tail(event_queue)

\* The tasks that are inside a handler with draw calls still to finish
DisplayWriters == {t \in Tasks : todo[t] # <<>>}

PreviewOnPanel == \E i \in 1..NumModes : Shown(oled, "mode") = <<"Mode: (", MODES[i], ")">>
ActiveOnPanel == Shown(oled, "mode") = <<"Mode: ", MODES[active_index + 1]>>

\* C2: processing a Confirm sets active_index to selected_index, and while a
\* Confirm is processed right after another Confirm (no rotation handled in
\* between) neither index nor the frame on the panel changes.
C2_ConfirmIdempotent ==
    [][ /\ ProcessesEvent("button_pressed") =>
              mode_manager'.active_mode_index = mode_manager.selected_mode_index
        /\ (/\ last_event = "confirm"
            /\ handling = "button_pressed" \/ handling' = "button_pressed")
           => /\ mode_manager'.selected_mode_index = mode_manager.selected_mode_index
              /\ mode_manager'.active_mode_index = mode_manager.active_mode_index
              /\ oled' = oled
      ]_vars

C2_Witness ==
    /\ last_event = "confirm"
    /\ handling = "button_pressed"
    /\ wphase["process_events"] = "drawn"
    /\ Len(todo["process_events"]) = 1
    /\ active_index = 2

\* C3: active_index changes only in a step that processes a Confirm, and
\* selected_index only in a step that processes a rotation, which moves it by
\* one modulo 5; every other step leaves both alone.
C3_IndexFrame ==
    [][ /\ active_index' # active_index => ProcessesEvent("button_pressed")
        /\ selected_index' # selected_index =>
              ProcessesEvent("knob_forward") \/ ProcessesEvent("knob_backward")
        /\ ProcessesEvent("knob_forward") =>
              selected_index' = IF selected_index = 4 THEN 0 ELSE selected_index + 1
        /\ ProcessesEvent("knob_backward") =>
              selected_index' = IF selected_index = 0 THEN 4 ELSE selected_index - 1
      ]_vars

C3_Witness ==
    /\ selected_index = 0
    /\ active_index = 4
    /\ oled["status"] # Blank
    /\ Shown(oled, "mode") = <<"Mode: ", "APRS">>
    /\ net["last_icon"] # None
    /\ running = {}

\* C4: the watcher reverts the display only when more than 5 seconds have
\* passed since the last rotate or confirm event was processed (a rotation
\* after a Confirm restarts the window).
C4_RevertAfterTimeout ==
    todo["inactivity"] # <<>> =>
        since_interaction.sec > 5 \/ (since_interaction.sec = 5 /\ since_interaction.more)

C4_Witness ==
    /\ todo["inactivity"] # <<>>
    /\ selected_index # active_index
    /\ Shown(oled, "status") = <<"Activating...">>
    /\ Shown(oled, "mode") = <<"Mode: (", MODES[selected_index + 1], ")">>

\* C5: the watcher renders a reversion only while the panel shows the
\* preview, never when the mode line already shows the active mode.
C5_RevertOnlyFromPreview ==
    todo["inactivity"] # <<>> => ~ActiveOnPanel

\* C6: the reversion never fires while selected_index = active_index.
C6_NoRevertWhenEqual ==
    todo["inactivity"] # <<>> => selected_index # active_index

\* C7: under fair scheduling and advancing time, a preview on the panel is
\* replaced by the active mode unless another interaction is processed, and
\* it never stays longer than timeout + one watcher period after the last
\* interaction.
C7_EventuallyReverts ==
    /\ [](PreviewOnPanel =>
             since_interaction.sec < 5 + 1
             \/ (since_interaction.sec = 5 + 1 /\ ~since_interaction.more))
    /\ (PreviewOnPanel /\ since_interaction.sec > 0)
          ~> (ActiveOnPanel \/ since_interaction.sec = 0)

C7_Witness ==
    /\ PreviewOnPanel
    /\ since_interaction = [sec |-> 5 + 1, more |-> FALSE]
    /\ selected_index # active_index
    /\ wphase["inactivity"] = "drawn"

\* C8: display writes never interleave: at most one task is between the
\* clear and the push of a draw call.
C8_SingleWriter ==
    Cardinality({t \in Tasks : wphase[t] # "none"}) <= 1

C8_Witness ==
    /\ wphase["inactivity"] = "cleared"
    /\ event_queue # <<>>
    /\ net_sleep = 0

\* C9: no task but one render coordinator writes to the display: the state
\* machine (in process_events), the watcher, the network monitor and main
\* never do.
C9_SingleOwner ==
    DisplayWriters \cap {"process_events", "inactivity", "network", "main"} = {}

\* The two halves of C10: the producers have stopped when main draws the
\* goodbye, and no task is in a draw once the goodbye frame is on the panel.
ProducersStopped ==
    pc["main"] \in {"final_gather", "done"} =>
        \A t \in Children \cup {"inactivity"} : pc[t] = "done"

NoWriteAfterGoodbye ==
    oled["bye"] # Blank => DisplayWriters = {}

\* C10: the goodbye render happens only after every producer task has
\* stopped, and nothing writes to the display after the goodbye frame.
C10_GoodbyeLast == ProducersStopped /\ NoWriteAfterGoodbye

IsKnobEvent(e) == e \in {"knob_forward", "knob_backward"}
IsButtonEvent(e) == e \in {"button_pressed", "button_released"}

RECURSIVE Normalised(_, _)
Normalised(device, samples) ==
    IF samples = <<>> THEN <<>>
    ELSE input(device, Head(samples)) \o Normalised(device, Tail(samples))

\* C11: the events taken from the queue followed by those still waiting are
\* the events in the order they were put (none reordered, duplicated or
\* lost), and each device's events among them are in the order in which the
\* device produced the samples.
C11_QueueOrder ==
    /\ order.applied \o event_queue = order.enqueued
    /\ SelectSeq(order.applied \o event_queue, IsKnobEvent) = Normalised("rotary", order.rotary)
    /\ SelectSeq(order.applied \o event_queue, IsButtonEvent) = Normalised("button", order.button)

C11_Witness ==
    /\ order.applied = <<"knob_backward">>
    /\ event_queue = <<"button_pressed", "knob_forward">>
    /\ Shown(oled, "mode") = <<"Mode: (", "APRS", ")">>

\* C12: on every frame that draw calls of the program leave behind, and
\* with either font, a partial draw followed by the full refresh leaves the
\* frame that the full refresh alone leaves.
C12_FullRefreshSubsumes ==
    running = {} =>
        \A p \in PartialRequests :
            Drained(Drained(image, p), FullRefresh) = Drained(image, FullRefresh)

C12_Witness ==
    /\ todo["main"] = <<FullRefresh>>
    /\ wphase["main"] = "drawn"
    /\ image = GoodbyeFrame
    /\ font = "tight"
    /\ oled["mode"] = <<PreviewText("APRS"), ActiveText("Off")>>
    /\ oled["status"] = <<<<"Deactivating...">>>>
    /\ oled["net"] # <<>>

\* The interfaces of the table the last pass read that report an IPv4
\* address, by type, and the IPv4 address an interface reports
InetAddresses(iface) ==
    {iface.addrs[k].address : k \in {j \in DOMAIN iface.addrs : iface.addrs[j].family = "AF_INET"}}
LiveEthernet ==
    {i \in DOMAIN seen.interfaces :
        IsEthName(seen.interfaces[i].name) /\ InetAddresses(seen.interfaces[i]) # {}}
LiveWifi ==
    {i \in DOMAIN seen.interfaces :
        IsWifiName(seen.interfaces[i].name) /\ InetAddresses(seen.interfaces[i]) # {}}

\* C13: after a pass, if an Ethernet-type and a Wi-Fi interface both report
\* an IPv4 address the status is the Ethernet icon with the Ethernet
\* address (10.0.0.5 when eth0 has 10.0.0.5 and wlan0 192.168.1.9); if only
\* Wi-Fi does, the Wi-Fi icon with that address; if neither, the
\* no-connection icon with "Not Connected".
C13_EthernetFirst ==
    net.last_icon # None =>
        /\ (LiveEthernet # {} /\ LiveWifi # {}) =>
              /\ net.last_icon = "ICON_ETH"
              /\ \E i \in LiveEthernet : net.last_ip \in InetAddresses(seen.interfaces[i])
        /\ (LiveEthernet = {} /\ LiveWifi # {}) =>
              /\ net.last_icon = "ICON_WIFI"
              /\ \E i \in LiveWifi : net.last_ip \in InetAddresses(seen.interfaces[i])
        /\ (LiveEthernet = {} /\ LiveWifi = {}) =>
              /\ net.last_icon = "ICON_NO_CONN"
              /\ net.last_ip = "Not Connected"
        /\ (\E i, j \in DOMAIN seen.interfaces :
                /\ seen.interfaces[i] = IfEth
                /\ seen.interfaces[j] = IfWlan) =>
              /\ net.last_icon = "ICON_ETH"
              /\ net.last_ip = "10.0.0.5"

C13_Witness ==
    /\ seen.interfaces = <<IfWlan, IfEth>>
    /\ net.last_icon = "ICON_ETH"
    /\ net.last_ip = "10.0.0.5"
    /\ Shown(oled, "net") = <<"10.0.0.5">>

\* C14: a pass that finds Wi-Fi right after a pass that found Wi-Fi shows the
\* other of IP address and SSID than the text on the panel from the pass
\* before; a pass that finds Ethernet or no connection shows the IP text.
C14_WifiAlternates ==
    [][ (net_sleep = 0 /\ net_sleep' > 0) =>
            LET shown == todo'["network"][Len(todo'["network"])].text
            IN  /\ (net.last_icon = "ICON_WIFI" /\ net'.last_icon = "ICON_WIFI") =>
                      /\ shown # Shown(oled, "net")
                      /\ shown = <<net'.last_ip>> \/ shown = <<net'.last_ssid>>
                      /\ (shown = <<net'.last_ip>>) # (Shown(oled, "net") = <<net.last_ip>>)
                /\ net'.last_icon # "ICON_WIFI" => shown = <<net'.last_ip>>
      ]_vars

\* C15: the step that processes a button_released changes neither index nor
\* the last interaction time, makes no draw call and leaves the image and
\* the panel as they are, so the watcher's test is not affected by it.
C15_ReleaseNoEffect ==
    [][ ProcessesEvent("button_released") =>
            /\ mode_manager' = mode_manager
            /\ since_interaction' = since_interaction
            /\ todo' = todo
            /\ image' = image
            /\ oled' = oled
            /\ InactivityExpired(mode_manager') = InactivityExpired(mode_manager)
      ]_vars

C15_Witness ==
    /\ order.applied = <<"knob_forward", "button_released">>
    /\ order.button = <<[type |-> "EV_KEY", code |-> "KEY_A", value |-> 0]>>
    /\ event_queue = <<>>
    /\ mode_manager.last_knob_age.sec = 4
    /\ Shown(oled, "mode") = <<"Mode: (", "NWS Balloon", ")">>

\* A device can be located when the directory can be listed and has an
\* entry whose name contains the device's pattern
Located(pattern) ==
    /\ ~startup.by_path.error
    /\ \E i \in DOMAIN startup.by_path.entries :
          \E k \in 1..(Len(startup.by_path.entries[i].path) - 1) :
              SubSeq(startup.by_path.entries[i].path, k, k + 1) = pattern

\* C16: when the rotary or the button device cannot be located, the set-up
\* never gets past its find_input_device calls and ends aborted with an
\* error: no queue, display or state machine is built, no task is created,
\* no event is queued and nothing is drawn.
C16_AbortBeforeLoops ==
    (~Located(<<"platform-", "rotary">>) \/ ~Located(<<"platform-", "button">>)) =>
        /\ startup.phase \in {"find_rotary", "find_button", "aborted"}
        /\ startup.phase = "aborted" => startup.error = "RuntimeError"
        /\ startup.constructed = {}
        /\ \A t \in Tasks : pc[t] = "none"
        /\ event_queue = <<>>
        /\ image = BlankFrame
        /\ oled = BlankFrame

C16_Witness ==
    /\ Located(<<"platform-", "rotary">>)
    /\ ~Located(<<"platform-", "button">>)
    /\ startup.rotary_knob = PathRotaryB
    /\ startup.phase = "aborted"

\* The events an edge detector gives for a device's samples: Confirm when
\* the confirm key goes from released to value 1, Release when it goes from
\* pressed to value 0, nothing for other codes, repeats and non-key samples
RECURSIVE EdgeEvents(_, _)
EdgeEvents(samples, pressed) ==
    IF samples = <<>> THEN <<>>
    ELSE LET s == Head(samples)
         IN  IF s.type = "EV_KEY" /\ s.code = "KEY_A"
             THEN (IF ~pressed /\ s.value = 1 THEN <<"button_pressed">>
                   ELSE IF pressed /\ s.value = 0 THEN <<"button_released">>
                   ELSE <<>>)
                  \o EdgeEvents(Tail(samples), s.value # 0)
             ELSE EdgeEvents(Tail(samples), pressed)

\* C17: the button events put on the queue are those of the rising and
\* falling edges of the confirm key in the samples the button produced:
\* other codes and held/repeat samples give no event.
C17_EdgeEvents ==
    SelectSeq(order.applied \o event_queue, IsButtonEvent) = EdgeEvents(order.button, FALSE)

\* C18: the status string of a Confirm is off the panel once a later
\* rotation has been rendered (the panel shows a preview) and once the
\* watcher has rendered a reversion.
C18_StatusTransient ==
    /\ [](PreviewOnPanel => oled["status"] = Blank)
    /\ [][(wphase["inactivity"] = "drawn" /\ wphase'["inactivity"] = "none")
             => oled'["status"] = Blank]_vars

\* C19: before shutdown, whenever neither the event processor nor the watcher
\* is in the middle of a handler, the mode line on the panel is the preview
\* of the current selected mode or the current active mode.
C19_ModeLineFresh ==
    (pc["main"] = "gather" /\ todo["process_events"] = <<>> /\ todo["inactivity"] = <<>>) =>
        \/ Shown(oled, "mode") = <<"Mode: (", MODES[selected_index + 1], ")">>
        \/ Shown(oled, "mode") = <<"Mode: ", MODES[active_index + 1]>>

C19_Witness ==
    /\ pc["main"] = "gather"
    /\ wphase["network"] = "cleared"
    /\ Shown(oled, "mode") = <<"Mode: ", "HAM Balloon">>
    /\ selected_index = 4
    /\ active_index = 2
    /\ event_queue # <<>>

\* C20: the mode a Confirm makes active is the mode named on the panel's
\* mode line (as preview or as active mode) when the Confirm is processed.
C20_ConfirmActivatesShown ==
    [][ ProcessesEvent("button_pressed") =>
            \/ Shown(oled, "mode") = <<"Mode: (", MODES[active_index' + 1], ")">>
            \/ Shown(oled, "mode") = <<"Mode: ", MODES[active_index' + 1]>>
      ]_vars

====
